---- MODULE Spec2Model ----
(***************************************************************************)
(* Choreboard server (choreboard_server.py): a Flask application that      *)
(* keeps one JSON document in db.json and rewrites it in full on every     *)
(* mutating request.                                                       *)
(*                                                                         *)
(* A JSON object is a TLA+ record whose DOMAIN is the set of keys that are *)
(* present, so a missing key is a key outside the DOMAIN and a direct key  *)
(* access d['k'] on it is the KeyError of the source.  A JSON array is a   *)
(* sequence.  json.dump followed by json.load maps a tree of objects with  *)
(* string keys, arrays, integers, strings, booleans and null to an equal   *)
(* tree, so the content of a well-formed db.json is held as that tree.     *)
(***************************************************************************)
EXTENDS Integers, Sequences, FiniteSets, TLC

VARIABLES
    db,     \* the backing file db.json: [content, doc]
    resp,   \* the latest request and its response: [op, payload, status, body]
    pre,    \* db.json as it was when the latest request arrived
    repeat, \* the latest request repeats the one before it (same endpoint, same payload)
    n,      \* the number of requests received so far
    faults, \* the number of requests answered with a server fault so far
    pc,     \* per request thread: the step it is at
    loc,    \* per request thread: its request and its local variables
    lastw,  \* the write_data that db.json holds the text of, if there is one
    hist    \* the server's past: [logged, dead, n, faults]

vars == <<db, resp, pre, repeat, n, faults, pc, loc, lastw, hist>>

(***************************************************************************)
(* Bounds of the model.                                                    *)
(***************************************************************************)
MaxRequests == 4    \* the requests of one behaviour
MaxThreads  == 2    \* the request threads that run at once
MaxThreaded == 2    \* the requests of one behaviour of the threaded server

\* The ids request payloads name: seed chore 2, and 3, the id no seed chore has.
ChoreIds == {2, 3}
UserIds  == {1, 2}

\* Python's None (JSON null), as payload.get('timestamp') returns it.
None == "None"

Has(d, k) == k \in DOMAIN d

\* The record d without its key k.
Drop(d, k) == [x \in DOMAIN d \ {k} |-> d[x]]

(***************************************************************************)
(* read_data's default_data, the seed document.                            *)
(***************************************************************************)
default_data ==
    [ users |-> << [id |-> 1, name |-> "Alex"], [id |-> 2, name |-> "Jordan"] >>,
      masterChores |->
        << [id |-> 1, name |-> "Washed a dish", points |-> 5, type |-> "repeatable"],
           [id |-> 2, name |-> "Cleaned cat litter", points |-> 20, type |-> "repeatable"] >>,
      currentWeek |->
        [ prize |-> "Winner picks dinner!",
          assignedChores |-> << >>,
          completedLog |-> << >> ] ]

\* db.json is absent ("none"), holds a JSON document ("json"), or exists with
\* a content json.load rejects: "empty" right after open(DB_FILE, 'w').  The
\* doc field of a file that holds no document is a placeholder nothing reads.
NoFile    == [content |-> "none", doc |-> default_data]
Truncated == [content |-> "empty", doc |-> default_data]

\* write_data as one step: open(DB_FILE, 'w') and json.dump(data).
write_data(data) == [content |-> "json", doc |-> data]

\* read_data as one step.  status "ok": data is the document returned and
\* file the backing file afterwards (the seed is persisted when there was no
\* file).  status "fault": json.load raised on a file that is no document.
\* read_data that hands out the seed without saving it.
read_data_unsaved(file) ==
    IF file.content = "none"
    THEN [status |-> "ok", data |-> default_data, file |-> file]
    ELSE IF file.content = "json"
    THEN [status |-> "ok", data |-> file.doc, file |-> file]
    ELSE [status |-> "fault", data |-> file.doc, file |-> file]

read_data(file) ==
    IF file.content = "none"
    THEN [status |-> "ok", data |-> default_data, file |-> write_data(default_data)]
    ELSE IF file.content = "json"
    THEN [status |-> "ok", data |-> file.doc, file |-> file]
    ELSE [status |-> "fault", data |-> file.doc, file |-> file]

\* The body of the response to a request that raised: no document.
ErrorPage == [error |-> 500]

\* A handler's outcome: the document it built and whether it raised.
Ok(data)    == [ok |-> TRUE, data |-> data]
Fault(data) == [ok |-> FALSE, data |-> data]

WithLog(data, log) ==
    [data EXCEPT !.currentWeek.completedLog = log]
WithAssigned(data, rows) ==
    [data EXCEPT !.currentWeek.assignedChores = rows]

(***************************************************************************)
(* log_chore, lines 87-89: data['currentWeek']['completedLog'].append.     *)
(***************************************************************************)
\* log_chore with a duplicate check: an entry equal to one already logged is skipped.
log_chore_body_dedup(data, payload) ==
    IF \E i \in 1..Len(data.currentWeek.completedLog) :
           data.currentWeek.completedLog[i] = payload
    THEN Ok(data)
    ELSE Ok(WithLog(data, Append(data.currentWeek.completedLog, payload)))

log_chore_body(data, payload) ==
    Ok(WithLog(data, Append(data.currentWeek.completedLog, payload)))

(***************************************************************************)
(* update_weekly_chore, lines 101-126.                                     *)
(***************************************************************************)
\* The condition of lines 103, 111 and 125 on one element e:
\*   e['choreId'] == payload['choreId'] and e['userId'] == payload['userId']
\* evaluated left to right with the short circuit of `and`: "KeyError" when
\* a key that is reached is missing from e or from payload.
PairTest(e, payload) ==
    IF ~Has(e, "choreId") \/ ~Has(payload, "choreId") THEN "KeyError"
    ELSE IF e.choreId # payload.choreId THEN "False"
    ELSE IF ~Has(e, "userId") \/ ~Has(payload, "userId") THEN "KeyError"
    ELSE IF e.userId # payload.userId THEN "False"
    ELSE "True"

\* The loop of lines 102-105 from row i on: the index of the first matching
\* row, 0 when no row matches, -1 when a key access raised before a match.
RECURSIVE FirstMatch(_, _, _)
FirstMatch(rows, payload, i) ==
    IF i > Len(rows) THEN 0
    ELSE LET t == PairTest(rows[i], payload) IN
         IF t = "KeyError" THEN -1
         ELSE IF t = "True" THEN i
         ELSE FirstMatch(rows, payload, i + 1)

\* any(...) of lines 110-113 from entry i on; any stops at the first True.
RECURSIVE LogExists(_, _, _)
LogExists(log, payload, i) ==
    IF i > Len(log) THEN "False"
    ELSE LET t == PairTest(log[i], payload) IN
         IF t = "False" THEN LogExists(log, payload, i + 1) ELSE t

\* The dict literal of lines 115-120.
NewLogEntry(payload) ==
    [ logId     |-> IF Has(payload, "logId") THEN payload.logId ELSE payload.choreId,
      choreId   |-> payload.choreId,
      userId    |-> payload.userId,
      timestamp |-> IF Has(payload, "timestamp") THEN payload.timestamp ELSE None ]

\* The list comprehension of lines 123-126; it visits every entry.
LogWithoutPair(log, payload) ==
    LET Keep(e) == PairTest(e, payload) = "False"
    IN  SelectSeq(log, Keep)

\* update_weekly_chore that appends a log entry without the any(...) test.
update_weekly_chore_body_append(data, payload) ==
    LET rows == data.currentWeek.assignedChores
        m    == FirstMatch(rows, payload, 1)
    IN
    IF m = -1 \/ ~({"choreId", "userId", "completed"} \subseteq DOMAIN payload)
    THEN Fault(data)
    ELSE
    LET d1  == IF m = 0 THEN data
               ELSE WithAssigned(data,
                        [rows EXCEPT ![m] = [@ EXCEPT !.completed = payload.completed]])
        log == d1.currentWeek.completedLog
    IN
    IF payload.completed
    THEN Ok(WithLog(d1, Append(log, NewLogEntry(payload))))
    ELSE IF \E i \in 1..Len(log) : PairTest(log[i], payload) = "KeyError"
         THEN Fault(data)
         ELSE Ok(WithLog(d1, LogWithoutPair(log, payload)))

\* The loop of lines 102-105 without its break: every matching row is set.
update_weekly_chore_body_nobreak(data, payload) ==
    LET rows == data.currentWeek.assignedChores
        bad  == \/ \E i \in 1..Len(rows) : PairTest(rows[i], payload) = "KeyError"
                \/ ~Has(payload, "completed")
                \/ \E i \in 1..Len(data.currentWeek.completedLog) :
                       PairTest(data.currentWeek.completedLog[i], payload) = "KeyError"
    IN
    IF bad THEN Fault(data)
    ELSE
    LET d1  == WithAssigned(data,
                   [i \in 1..Len(rows) |->
                       IF PairTest(rows[i], payload) = "True"
                       THEN [rows[i] EXCEPT !.completed = payload.completed]
                       ELSE rows[i]])
        log == d1.currentWeek.completedLog
    IN
    IF payload.completed
    THEN IF LogExists(log, payload, 1) = "True" THEN Ok(d1)
         ELSE IF ~Has(payload, "choreId") \/ ~Has(payload, "userId") THEN Fault(data)
         ELSE Ok(WithLog(d1, Append(log, NewLogEntry(payload))))
    ELSE Ok(WithLog(d1, LogWithoutPair(log, payload)))

update_weekly_chore_body(data, payload) ==
    LET rows == data.currentWeek.assignedChores
        m    == FirstMatch(rows, payload, 1)
    IN
    IF m = -1 \/ (m > 0 /\ ~Has(payload, "completed")) THEN Fault(data)
    ELSE
    LET d1  == IF m = 0 THEN data
               ELSE WithAssigned(data,
                        [rows EXCEPT ![m] = [@ EXCEPT !.completed = payload.completed]])
        log == d1.currentWeek.completedLog
    IN
    IF ~Has(payload, "completed") THEN Fault(data)
    ELSE IF payload.completed
    THEN LET x == LogExists(log, payload, 1) IN
         IF x = "KeyError" THEN Fault(data)
         ELSE IF x = "True" THEN Ok(d1)
         ELSE IF ~Has(payload, "choreId") \/ ~Has(payload, "userId") THEN Fault(data)
         ELSE Ok(WithLog(d1, Append(log, NewLogEntry(payload))))
    ELSE IF \E i \in 1..Len(log) : PairTest(log[i], payload) = "KeyError"
         THEN Fault(data)
         ELSE Ok(WithLog(d1, LogWithoutPair(log, payload)))

(***************************************************************************)
(* add_chore, lines 139-154.                                               *)
(***************************************************************************)
chore_to_add(payload) ==
    [id |-> payload.id, name |-> payload.name,
     points |-> payload.points, type |-> payload.type]

\* add_chore that adds nothing when masterChores already holds the id.
add_chore_body_unique(data, payload) ==
    IF ~({"id", "name", "points", "type"} \subseteq DOMAIN payload) THEN Fault(data)
    ELSE IF \E i \in 1..Len(data.masterChores) : data.masterChores[i].id = payload.id
    THEN Ok(data)
    ELSE
    LET d1 == [data EXCEPT !.masterChores = Append(@, chore_to_add(payload))]
    IN  IF payload.type = "weekly" /\ Has(payload, "assignedUserId")
        THEN Ok(WithAssigned(d1,
                 Append(d1.currentWeek.assignedChores,
                        [choreId |-> payload.id,
                         userId |-> payload.assignedUserId,
                         completed |-> FALSE])))
        ELSE Ok(d1)

\* add_chore without the type test of line 149: any chore with a user is assigned.
add_chore_body_anytype(data, payload) ==
    IF ~({"id", "name", "points", "type"} \subseteq DOMAIN payload) THEN Fault(data)
    ELSE
    LET d1 == [data EXCEPT !.masterChores = Append(@, chore_to_add(payload))]
    IN  IF Has(payload, "assignedUserId")
        THEN Ok(WithAssigned(d1,
                 Append(d1.currentWeek.assignedChores,
                        [choreId |-> payload.id,
                         userId |-> payload.assignedUserId,
                         completed |-> FALSE])))
        ELSE Ok(d1)

add_chore_body(data, payload) ==
    IF ~({"id", "name", "points", "type"} \subseteq DOMAIN payload) THEN Fault(data)
    ELSE
    LET d1 == [data EXCEPT !.masterChores = Append(@, chore_to_add(payload))]
    IN  IF payload.type = "weekly" /\ Has(payload, "assignedUserId")
        THEN Ok(WithAssigned(d1,
                 Append(d1.currentWeek.assignedChores,
                        [choreId |-> payload.id,
                         userId |-> payload.assignedUserId,
                         completed |-> FALSE])))
        ELSE Ok(d1)

(***************************************************************************)
(* delete_chore, lines 168-171.                                            *)
(***************************************************************************)
\* s without its first element that satisfies Test.
RECURSIVE RemoveFirst(_, _, _)
RemoveFirst(s, Test(_), i) ==
    IF i > Len(s) THEN s
    ELSE IF Test(s[i]) THEN SubSeq(s, 1, i - 1) \o SubSeq(s, i + 1, Len(s))
    ELSE RemoveFirst(s, Test, i + 1)

\* delete_chore that leaves assignedChores alone.
delete_chore_body_rows(data, chore_id_to_delete) ==
    LET log == data.currentWeek.completedLog
        KeepMaster(c) == c.id # chore_id_to_delete
        KeepRef(e)    == e.choreId # chore_id_to_delete
    IN
    IF \E i \in 1..Len(log) : ~Has(log[i], "choreId") THEN Fault(data)
    ELSE Ok([data EXCEPT
               !.masterChores = SelectSeq(@, KeepMaster),
               !.currentWeek.completedLog = SelectSeq(@, KeepRef)])

\* delete_chore that stops at the first masterChores entry with the id.
delete_chore_body_first(data, chore_id_to_delete) ==
    LET log == data.currentWeek.completedLog
        IsMaster(c) == c.id = chore_id_to_delete
        KeepRef(e)  == e.choreId # chore_id_to_delete
    IN
    IF \E i \in 1..Len(log) : ~Has(log[i], "choreId") THEN Fault(data)
    ELSE Ok([data EXCEPT
               !.masterChores = RemoveFirst(@, IsMaster, 1),
               !.currentWeek.assignedChores = SelectSeq(@, KeepRef),
               !.currentWeek.completedLog = SelectSeq(@, KeepRef)])

delete_chore_body(data, chore_id_to_delete) ==
    LET log == data.currentWeek.completedLog
        KeepMaster(c) == c.id # chore_id_to_delete
        KeepRef(e)    == e.choreId # chore_id_to_delete
    IN
    IF \E i \in 1..Len(log) : ~Has(log[i], "choreId") THEN Fault(data)
    ELSE Ok([data EXCEPT
               !.masterChores = SelectSeq(@, KeepMaster),
               !.currentWeek.assignedChores = SelectSeq(@, KeepRef),
               !.currentWeek.completedLog = SelectSeq(@, KeepRef)])

(***************************************************************************)
(* reset_week, lines 184-188.                                              *)
(***************************************************************************)
\* reset_week that leaves the completed flags alone.
reset_week_body_flags(data, prize) ==
    Ok([data EXCEPT
          !.currentWeek.prize = prize,
          !.currentWeek.completedLog = << >>])

\* reset_week that also empties assignedChores.
reset_week_body_clear(data, prize) ==
    Ok([data EXCEPT
          !.currentWeek.prize = prize,
          !.currentWeek.completedLog = << >>,
          !.currentWeek.assignedChores = << >>])

reset_week_body(data, prize) ==
    LET rows == data.currentWeek.assignedChores IN
    Ok([data EXCEPT
          !.currentWeek.prize = prize,
          !.currentWeek.completedLog = << >>,
          !.currentWeek.assignedChores =
              [i \in 1..Len(rows) |-> [rows[i] EXCEPT !.completed = FALSE]]])

(***************************************************************************)
(* Request payloads.                                                       *)
(***************************************************************************)
\* log_chore takes any JSON object: entries as the front end sends them for
\* a repeatable chore, and objects that lack choreId or userId.
LogPayloads ==
    { [logId |-> 7, choreId |-> 3, userId |-> 1, timestamp |-> "T1"],
      [logId |-> 8, userId |-> 1],
      [logId |-> 8, choreId |-> 3] }

UpdateFull ==
    [choreId : ChoreIds, userId : UserIds, completed : BOOLEAN]
    \cup [choreId : {3}, userId : {1}, completed : {TRUE},
          logId : {9}, timestamp : {"T1"}]

\* Payloads that lack one of the keys the handler reads.
UpdateMalformed ==
    { Drop(p, k) : p \in [choreId : {3}, userId : {1}, completed : BOOLEAN],
                   k \in {"choreId", "userId", "completed"} }

UpdatePayloads == UpdateFull \cup UpdateMalformed

AddFull ==
    [id : ChoreIds, name : {"Take out trash"}, points : {10},
     type : {"weekly", "repeatable"}]
    \cup [id : ChoreIds, name : {"Take out trash"}, points : {10},
          type : {"weekly", "repeatable"}, assignedUserId : UserIds]

AddMalformed ==
    { Drop([id |-> 3, name |-> "Take out trash", points |-> 10,
            type |-> "weekly", assignedUserId |-> 1], k) :
      k \in {"id", "name", "points", "type"} }

AddPayloads == AddFull \cup AddMalformed

NoPayload == [k \in {} |-> 0]

DeletePayloads == [choreId : ChoreIds] \cup {NoPayload}

Prizes == {"Movie night"}
ResetPayloads == [prize : Prizes] \cup {NoPayload}

(***************************************************************************)
(* The endpoints, each as one whole request: read_data, the handler's      *)
(* body, write_data, and the response.  A request that raises answers 500  *)
(* and does not reach write_data.                                          *)
(***************************************************************************)
Respond(op, payload, status, data) ==
    /\ n' = n + 1
    /\ hist' = [hist EXCEPT !.logged = @ \/ op = "log_chore"]
    /\ UNCHANGED <<pc, loc, lastw>>
    /\ pre' = db
    /\ repeat' = (n > 0 /\ resp.op = op /\ resp.payload = payload)
    /\ resp' = [op |-> op, payload |-> payload, status |-> status,
                body |-> IF status = "ok" THEN data ELSE ErrorPage]
    /\ faults' = IF status = "fault" THEN faults + 1 ELSE faults

\* The file and the response after read_data returned r and the body out.
Finish(op, payload, r, out) ==
    IF r.status = "ok" /\ out.ok
    THEN db' = write_data(out.data) /\ Respond(op, payload, "ok", out.data)
    ELSE db' = r.file /\ Respond(op, payload, "fault", out.data)

get_state ==
    LET r == read_data(db) IN
    /\ db' = r.file
    /\ Respond("get_state", NoPayload, r.status, r.data)

log_chore(payload) ==
    LET r == read_data(db) IN
    Finish("log_chore", payload, r, log_chore_body(r.data, payload))

update_weekly_chore(payload) ==
    LET r == read_data(db) IN
    Finish("update_weekly_chore", payload, r,
           update_weekly_chore_body(r.data, payload))

add_chore(payload) ==
    LET r == read_data(db) IN
    Finish("add_chore", payload, r, add_chore_body(r.data, payload))

\* delete_chore that calls read_data before it reads payload['choreId'].
delete_chore_readfirst(payload) ==
    LET r == read_data(db) IN
    IF ~Has(payload, "choreId")
    THEN /\ db' = r.file
         /\ Respond("delete_chore", payload, "fault", r.data)
    ELSE Finish("delete_chore", payload, r, delete_chore_body(r.data, payload.choreId))

\* payload['choreId'] of line 163 is read before read_data.
delete_chore(payload) ==
    IF ~Has(payload, "choreId")
    THEN /\ UNCHANGED db
         /\ Respond("delete_chore", payload, "fault", default_data)
    ELSE LET r == read_data(db) IN
         Finish("delete_chore", payload, r, delete_chore_body(r.data, payload.choreId))

\* payload['prize'] of line 180 is read before read_data.
reset_week(payload) ==
    IF ~Has(payload, "prize")
    THEN /\ UNCHANGED db
         /\ Respond("reset_week", payload, "fault", default_data)
    ELSE LET r == read_data(db) IN
         Finish("reset_week", payload, r, reset_week_body(r.data, payload.prize))

\* Before the first response.
NoResponse == [op |-> "none", payload |-> NoPayload, status |-> "ok", body |-> ErrorPage]

\* A thread's local state while it serves nothing.
\* snap: the document read_data returned; prev: db.json as it was when the
\* request arrived; alone: no other thread has served a request since then;
\* stale: another thread's write_data touched db.json after this one read it;
\* over: db.json as it was when this thread's write_data truncated it.
Idle ==
    [op |-> "none", payload |-> NoPayload,
     snap |-> default_data, prev |-> NoFile, over |-> NoFile,
     alone |-> TRUE, stale |-> FALSE]

\* No write_data has written since db.json was last truncated.
NoWrite == [Idle EXCEPT !.op = "nowrite"]

\* logged: log_chore was called; dead: the server process died while db.json
\* was not a JSON document; n, faults: the counters when it last died.
NoHistory == [logged |-> FALSE, dead |-> FALSE, n |-> 0, faults |-> 0]

Threads == 1..MaxThreads

Init ==
    /\ db = NoFile
    /\ pre = NoFile
    /\ repeat = FALSE
    /\ n = 0
    /\ faults = 0
    /\ resp = NoResponse
    /\ pc = [t \in Threads |-> "idle"]
    /\ loc = [t \in Threads |-> Idle]
    /\ lastw = NoWrite
    /\ hist = NoHistory

\* One request at a time, each served to its end before the next arrives.
Next ==
    /\ n < MaxRequests
    /\ \/ get_state
       \/ \E p \in LogPayloads    : log_chore(p)
       \/ \E p \in UpdatePayloads : update_weekly_chore(p)
       \/ \E p \in AddPayloads    : add_chore(p)
       \/ \E p \in DeletePayloads : delete_chore(p)
       \/ \E p \in ResetPayloads  : reset_week(p)

Spec == Init /\ [][Next]_vars

(***************************************************************************)
(* The same endpoints under Flask's threaded server: each request runs in  *)
(* its own thread and the threads interleave at the file operations.       *)
(* read_data is os.path.exists, then either open/json.load or write_data   *)
(* of the seed; write_data is open(DB_FILE, 'w'), which truncates the      *)
(* file, then json.dump and close, which write the text.  The handler's    *)
(* body works on the thread's own copy and is taken with the read before   *)
(* it.                                                                     *)
(* The server process can die while a write_data is between its open and   *)
(* the end of its json.dump; the process that is started again finds       *)
(* db.json as it was left.                                                 *)
(***************************************************************************)
\* The handler body of endpoint op on the document data.
Apply(op, payload, data) ==
    CASE op = "log_chore"           -> log_chore_body(data, payload)
      [] op = "update_weekly_chore" -> update_weekly_chore_body(data, payload)
      [] op = "add_chore"           -> add_chore_body(data, payload)
      [] op = "delete_chore"        -> delete_chore_body(data, payload.choreId)
      [] op = "reset_week"          -> reset_week_body(data, payload.prize)
      [] OTHER                      -> Ok(data)

AddTrash ==
    [id |-> 3, name |-> "Take out trash", points |-> 10,
     type |-> "weekly", assignedUserId |-> 1]

\* The requests of the threaded server: one of each endpoint on chore 3 and
\* user 1, update_weekly_chore both ways.
Requests ==
    { [op |-> "get_state", payload |-> NoPayload],
      [op |-> "log_chore",
       payload |-> [logId |-> 7, choreId |-> 3, userId |-> 1, timestamp |-> "T1"]],
      [op |-> "update_weekly_chore",
       payload |-> [choreId |-> 3, userId |-> 1, completed |-> TRUE]],
      [op |-> "update_weekly_chore",
       payload |-> [choreId |-> 3, userId |-> 1, completed |-> FALSE]],
      [op |-> "add_chore", payload |-> AddTrash],
      [op |-> "delete_chore", payload |-> [choreId |-> 3]],
      [op |-> "delete_chore", payload |-> NoPayload],
      [op |-> "reset_week", payload |-> [prize |-> "Movie night"]] }

\* Lines 163 and 180 read the payload before read_data.
RaisesBeforeRead(r) ==
    \/ r.op = "delete_chore" /\ ~Has(r.payload, "choreId")
    \/ r.op = "reset_week" /\ ~Has(r.payload, "prize")

\* The response of thread t, which then serves nothing.
Answer(t, status, data) ==
    /\ resp' = [op |-> loc[t].op, payload |-> loc[t].payload, status |-> status,
                body |-> IF status = "ok" THEN data ELSE ErrorPage]
    /\ faults' = IF status = "fault" THEN faults + 1 ELSE faults
    /\ pc' = [pc EXCEPT ![t] = "idle"]

\* The threads' local states once t has answered.
Ended(t, l) == [l EXCEPT ![t] = Idle]

\* Every other thread that holds a document it read sees the file change.
Staled(t, l) ==
    [u \in Threads |->
        IF u # t /\ pc[u] \in {"write_open", "write_dump"}
        THEN [l[u] EXCEPT !.stale = TRUE] ELSE l[u]]

\* Thread t, the first one that is free, takes a request.
Begin(t, r) ==
    /\ pc[t] = "idle"
    /\ \A u \in Threads : u < t => pc[u] # "idle"
    /\ n' = n + 1
    /\ IF RaisesBeforeRead(r)
       THEN /\ resp' = [op |-> r.op, payload |-> r.payload, status |-> "fault",
                        body |-> ErrorPage]
            /\ faults' = faults + 1
            /\ UNCHANGED <<pc, loc>>
       ELSE /\ UNCHANGED <<resp, faults>>
            /\ pc' = [pc EXCEPT ![t] = "exists"]
            /\ loc' = [u \in Threads |->
                          IF u = t
                          THEN [Idle EXCEPT !.op = r.op, !.payload = r.payload,
                                            !.prev = db,
                                            !.alone = \A v \in Threads : pc[v] = "idle"]
                          ELSE IF pc[u] # "idle"
                          THEN [loc[u] EXCEPT !.alone = FALSE]
                          ELSE loc[u]]
    /\ hist' = [hist EXCEPT !.logged = @ \/ r.op = "log_chore"]
    /\ UNCHANGED <<db, pre, repeat, lastw>>

\* os.path.exists that takes a file that is no JSON document for no file.
Exists_valid(t) ==
    /\ pc[t] = "exists"
    /\ pc' = [pc EXCEPT ![t] = IF db.content # "json" THEN "seed_open" ELSE "load"]
    /\ UNCHANGED <<db, resp, pre, repeat, n, faults, loc, lastw, hist>>

\* Line 22: os.path.exists(DB_FILE).
Exists(t) ==
    /\ pc[t] = "exists"
    /\ pc' = [pc EXCEPT ![t] = IF db.content = "none" THEN "seed_open" ELSE "load"]
    /\ UNCHANGED <<db, resp, pre, repeat, n, faults, loc, lastw, hist>>

\* The thread goes on with the document data that read_data returned.
Proceed(t, data, l) ==
    LET out == Apply(loc[t].op, loc[t].payload, data) IN
    IF loc[t].op = "get_state" \/ ~out.ok
    THEN /\ Answer(t, IF out.ok THEN "ok" ELSE "fault", data)
         /\ loc' = Ended(t, l)
    ELSE /\ pc' = [pc EXCEPT ![t] = "write_open"]
         /\ loc' = [l EXCEPT ![t].snap = data]
         /\ UNCHANGED <<resp, faults>>

\* read_data that returns default_data without reading the file.
Load_seed(t) ==
    /\ pc[t] = "load"
    /\ Proceed(t, default_data, loc)
    /\ UNCHANGED <<db, pre, repeat, n, lastw, hist>>

\* Lines 43-44: open(DB_FILE, 'r') and json.load, then the handler's body.
Load(t) ==
    /\ pc[t] = "load"
    /\ IF db.content = "json"
       THEN Proceed(t, db.doc, loc)
       ELSE /\ Answer(t, "fault", db.doc)
            /\ loc' = Ended(t, loc)
    /\ UNCHANGED <<db, pre, repeat, n, lastw, hist>>

\* json.dump and close on a file opened for writing: the text goes to the
\* start of the file.  On a file that is empty the file then holds data; on
\* a file another thread wrote to since this one truncated it, the end of
\* the other text stays behind this one when the other text is longer.
Dumped(file, data) ==
    IF file.content = "empty" \/ (file.content = "json" /\ file.doc = data)
    THEN {write_data(data)}
    ELSE {write_data(data), [content |-> "garbage", doc |-> default_data]}

\* Line 39, first half: write_data(default_data) opens the file for writing.
SeedOpen(t) ==
    /\ pc[t] = "seed_open"
    /\ db' = Truncated
    /\ lastw' = NoWrite
    /\ pc' = [pc EXCEPT ![t] = "seed_dump"]
    /\ loc' = Staled(t, loc)
    /\ UNCHANGED <<resp, pre, repeat, n, faults, hist>>

\* Line 39, second half, and line 40: the seed is written and returned.
SeedDump(t) ==
    /\ pc[t] = "seed_dump"
    /\ db' \in Dumped(db, default_data)
    /\ lastw' = NoWrite
    /\ Proceed(t, default_data, Staled(t, loc))
    /\ UNCHANGED <<pre, repeat, n, hist>>

\* Line 48: open(DB_FILE, 'w') truncates db.json.
WriteOpen(t) ==
    /\ pc[t] = "write_open"
    /\ db' = Truncated
    /\ lastw' = NoWrite
    /\ pc' = [pc EXCEPT ![t] = "write_dump"]
    /\ loc' = [Staled(t, loc) EXCEPT ![t].over = db]
    /\ UNCHANGED <<resp, pre, repeat, n, faults, hist>>

\* Line 49 and the return: json.dump, close, jsonify.
WriteDump(t) ==
    /\ pc[t] = "write_dump"
    /\ db' \in Dumped(db, Apply(loc[t].op, loc[t].payload, loc[t].snap).data)
    /\ lastw' = loc[t]
    /\ Answer(t, "ok", Apply(loc[t].op, loc[t].payload, loc[t].snap).data)
    /\ loc' = Ended(t, Staled(t, loc))
    /\ UNCHANGED <<pre, repeat, n, hist>>

\* The server process dies while a write_data is between its open and the
\* end of its json.dump (lines 48-49), and is started again: every request
\* in flight ends without a response and db.json stays as the dead process
\* left it.
Crash ==
    /\ \E t \in Threads : pc[t] \in {"seed_dump", "write_dump"}
    /\ pc' = [t \in Threads |-> "idle"]
    /\ loc' = [t \in Threads |-> Idle]
    /\ hist' = [hist EXCEPT !.dead = db.content \in {"empty", "garbage"},
                            !.n = n, !.faults = faults]
    /\ UNCHANGED <<db, resp, pre, repeat, n, faults, lastw>>

ConcNext ==
    \/ \E t \in Threads : \E r \in Requests : n < MaxThreaded /\ Begin(t, r)
    \/ \E t \in Threads : Exists(t)
    \/ \E t \in Threads : Load(t)
    \/ \E t \in Threads : SeedOpen(t)
    \/ \E t \in Threads : SeedDump(t)
    \/ \E t \in Threads : WriteOpen(t)
    \/ \E t \in Threads : WriteDump(t)
    \/ Crash

\* db.json as earlier runs of the server can have left it: no file, chore 3
\* added for user 1, and that chore completed.
Assigned3 == add_chore_body(default_data, AddTrash).data

Completed3 ==
    update_weekly_chore_body(Assigned3,
        [choreId |-> 3, userId |-> 1, completed |-> TRUE]).data

ConcInit ==
    /\ db \in {NoFile, write_data(Assigned3), write_data(Completed3)}
    /\ pre = NoFile
    /\ repeat = FALSE
    /\ n = 0
    /\ faults = 0
    /\ resp = NoResponse
    /\ pc = [t \in Threads |-> "idle"]
    /\ loc = [t \in Threads |-> Idle]
    /\ lastw = NoWrite
    /\ hist = NoHistory

ConcSpec == ConcInit /\ [][ConcNext]_vars

(***************************************************************************)
(* Vocabulary of the properties.                                           *)
(***************************************************************************)
\* The document a request finds in file: the seed when there is no file yet.
DocOf(file) == IF file.content = "json" THEN file.doc ELSE default_data

Before == DocOf(pre)
After  == DocOf(db)

\* Entry e references chore c; entry e is for the pair (c, u).
Refs(e, c) == Has(e, "choreId") /\ e.choreId = c
OfPair(e, c, u) == Refs(e, c) /\ Has(e, "userId") /\ e.userId = u

PairCount(log, c, u) == Cardinality({i \in 1..Len(log) : OfPair(log[i], c, u)})

\* s with every element that satisfies Gone removed, the rest in their order.
Without(s, Gone(_)) == LET Stay(e) == ~Gone(e) IN SelectSeq(s, Stay)

\* The (choreId, userId) pairs of the rows, in row order.
RowPairs(rows) == [i \in 1..Len(rows) |-> <<rows[i].choreId, rows[i].userId>>]

Served(op) == n > 0 /\ resp.op = op

(***************************************************************************)
(* C1: after delete_chore {choreId: c} the persisted document has no       *)
(* masterChores entry with id c, no assignedChores entry and no            *)
(* completedLog entry with choreId c, and every other entry of the three   *)
(* lists is still there in its original order.                             *)
(***************************************************************************)
C1_DeletePostcondition ==
    Served("delete_chore") /\ Has(resp.payload, "choreId") =>
        LET c == resp.payload.choreId
            IsMaster(m) == m.id = c
            IsRef(e)    == Refs(e, c)
        IN  /\ db.content = "json"
            /\ After.masterChores = Without(Before.masterChores, IsMaster)
            /\ After.currentWeek.assignedChores =
                   Without(Before.currentWeek.assignedChores, IsRef)
            /\ After.currentWeek.completedLog =
                   Without(Before.currentWeek.completedLog, IsRef)

(***************************************************************************)
(* C2: delete_chore is idempotent: a second delete_chore with the same     *)
(* payload right after the first leaves db.json as the first left it, and  *)
(* deleting an id that no list holds leaves the document unchanged.        *)
(***************************************************************************)
InNoList(doc, c) ==
    /\ \A i \in 1..Len(doc.masterChores) : doc.masterChores[i].id # c
    /\ \A i \in 1..Len(doc.currentWeek.assignedChores) :
           ~Refs(doc.currentWeek.assignedChores[i], c)
    /\ \A i \in 1..Len(doc.currentWeek.completedLog) :
           ~Refs(doc.currentWeek.completedLog[i], c)

C2_DeleteIdempotent ==
    Served("delete_chore") =>
        /\ repeat => db = pre
        /\ Has(resp.payload, "choreId") /\ InNoList(Before, resp.payload.choreId)
               => After = Before

\* delete_chore {choreId: 2} answered 200 twice in a row; the first call
\* removed seed chore 2.
C2_Witness ==
    /\ Served("delete_chore") /\ repeat /\ resp.status = "ok"
    /\ resp.payload = [choreId |-> 2]
    /\ InNoList(After, 2)

(***************************************************************************)
(* C3: reset_week {prize: p} sets currentWeek.prize to p, empties          *)
(* completedLog, sets completed = false on every AssignedChore and keeps   *)
(* the rows (same pairs, same count, same order) and masterChores.         *)
(***************************************************************************)
C3_ResetWeek ==
    Served("reset_week") /\ Has(resp.payload, "prize") =>
        LET rows0 == Before.currentWeek.assignedChores
            rows1 == After.currentWeek.assignedChores
        IN  /\ resp.status = "ok"
            /\ db.content = "json"
            /\ After.currentWeek.prize = resp.payload.prize
            /\ After.currentWeek.completedLog = << >>
            /\ Len(rows1) = Len(rows0)
            /\ RowPairs(rows1) = RowPairs(rows0)
            /\ \A i \in 1..Len(rows1) : rows1[i].completed = FALSE
            /\ After.masterChores = Before.masterChores
            /\ After.users = Before.users

\* reset_week served on a document with a completed row and a non-empty log.
C3_Witness ==
    /\ Served("reset_week") /\ resp.status = "ok"
    /\ \E i \in 1..Len(Before.currentWeek.assignedChores) :
           Before.currentWeek.assignedChores[i].completed
    /\ Before.currentWeek.completedLog # << >>
    /\ After.currentWeek.prize # Before.currentWeek.prize

(***************************************************************************)
(* C4: update_weekly_chore with completed = true appends a log entry for   *)
(* the pair only when the log holds none, so after the call the log holds  *)
(* at least one entry for the pair, exactly one when it held none, the log *)
(* is as it was when it held one, and the same call again changes nothing. *)
(***************************************************************************)
C4_UpdateTrueNoDuplicate ==
    /\ Served("update_weekly_chore")
    /\ {"choreId", "userId", "completed"} \subseteq DOMAIN resp.payload
    /\ resp.payload.completed
    => LET c    == resp.payload.choreId
           u    == resp.payload.userId
           log0 == Before.currentWeek.completedLog
           log1 == After.currentWeek.completedLog
       IN  /\ PairCount(log1, c, u) >= 1
           /\ PairCount(log0, c, u) = 0 => PairCount(log1, c, u) = 1
           /\ PairCount(log0, c, u) > 0 => log1 = log0
           /\ repeat => db = pre

(***************************************************************************)
(* C5: update_weekly_chore with completed = false removes every log entry  *)
(* of the payload's pair, those added by log_chore too, and keeps every    *)
(* other entry in its order; afterwards the log holds none for the pair.   *)
(***************************************************************************)
C5_UpdateFalseRemoves ==
    /\ Served("update_weekly_chore")
    /\ {"choreId", "userId", "completed"} \subseteq DOMAIN resp.payload
    /\ ~resp.payload.completed
    => LET c    == resp.payload.choreId
           u    == resp.payload.userId
           log0 == Before.currentWeek.completedLog
           log1 == After.currentWeek.completedLog
           IsPair(e) == OfPair(e, c, u)
       IN  /\ log1 = Without(log0, IsPair)
           /\ PairCount(log1, c, u) = 0

(***************************************************************************)
(* C6: add_chore appends exactly one entry {id, name, points, type} to the *)
(* end of masterChores, and one AssignedChore {choreId: id, userId:        *)
(* assignedUserId, completed: false} to the end of assignedChores when     *)
(* type is "weekly" and assignedUserId is present; otherwise it leaves     *)
(* assignedChores unchanged.                                               *)
(***************************************************************************)
C6_AddChore ==
    /\ Served("add_chore")
    /\ {"id", "name", "points", "type"} \subseteq DOMAIN resp.payload
    => LET p     == resp.payload
           rows0 == Before.currentWeek.assignedChores
           rows1 == After.currentWeek.assignedChores
       IN  /\ resp.status = "ok"
           /\ db.content = "json"
           /\ After.masterChores =
                  Append(Before.masterChores,
                         [id |-> p.id, name |-> p.name, points |-> p.points,
                          type |-> p.type])
           /\ IF p.type = "weekly" /\ Has(p, "assignedUserId")
              THEN rows1 = Append(rows0, [choreId |-> p.id,
                                          userId |-> p.assignedUserId,
                                          completed |-> FALSE])
              ELSE rows1 = rows0

\* add_chore served with a weekly chore for user 1 on a document without
\* rows: one more master entry and the row {choreId, userId, completed: false}.
C6_Witness ==
    /\ Served("add_chore") /\ resp.status = "ok"
    /\ resp.payload.type = "weekly" /\ Has(resp.payload, "assignedUserId")
    /\ Before.currentWeek.assignedChores = << >>
    /\ Len(After.masterChores) = Len(Before.masterChores) + 1
    /\ After.currentWeek.assignedChores =
           << [choreId |-> resp.payload.id, userId |-> 1, completed |-> FALSE] >>

(***************************************************************************)
(* C7: locality of effect.  No request changes users; masterChores changes *)
(* only under add_chore and delete_chore; the prize only under reset_week; *)
(* the (choreId, userId) rows only under add_chore and delete_chore;       *)
(* log_chore changes nothing but completedLog; update_weekly_chore changes *)
(* nothing but one completed flag and completedLog.                        *)
(***************************************************************************)
FlagsChanged(rows0, rows1) ==
    Cardinality({i \in 1..Len(rows0) : rows1[i].completed # rows0[i].completed})

C7_Locality ==
    n > 0 =>
        LET rows0 == Before.currentWeek.assignedChores
            rows1 == After.currentWeek.assignedChores
        IN  /\ After.users = Before.users
            /\ resp.op \notin {"add_chore", "delete_chore"} =>
                   /\ After.masterChores = Before.masterChores
                   /\ RowPairs(rows1) = RowPairs(rows0)
            /\ resp.op # "reset_week" =>
                   After.currentWeek.prize = Before.currentWeek.prize
            /\ resp.op = "log_chore" => rows1 = rows0
            /\ resp.op = "add_chore" =>
                   After.currentWeek.completedLog = Before.currentWeek.completedLog
            /\ resp.op = "update_weekly_chore" => FlagsChanged(rows0, rows1) <= 1
            /\ resp.op = "get_state" => After = Before

\* update_weekly_chore served: it flipped one flag and changed the log.
C7_Witness ==
    /\ Served("update_weekly_chore") /\ resp.status = "ok"
    /\ FlagsChanged(Before.currentWeek.assignedChores,
                    After.currentWeek.assignedChores) = 1
    /\ After.currentWeek.completedLog # Before.currentWeek.completedLog
    /\ Len(After.currentWeek.assignedChores) > 1

(***************************************************************************)
(* C9: log_chore appends its payload unchanged as the new last element of  *)
(* completedLog for any JSON object, with no validation and no dedup: the  *)
(* log grows by one on every call and the earlier entries stay in place.   *)
(***************************************************************************)
C9_LogChoreAppends ==
    Served("log_chore") =>
        /\ resp.status = "ok"
        /\ db.content = "json"
        /\ After.currentWeek.completedLog =
               Append(Before.currentWeek.completedLog, resp.payload)
        /\ Len(After.currentWeek.completedLog) =
               Len(Before.currentWeek.completedLog) + 1

\* The same object logged twice in a row: the log holds it twice.
C9_Witness ==
    /\ Served("log_chore") /\ repeat /\ resp.status = "ok"
    /\ Cardinality({i \in 1..Len(After.currentWeek.completedLog) :
                       After.currentWeek.completedLog[i] = resp.payload}) >= 2

(***************************************************************************)
(* C10: update_weekly_chore with a payload that lacks choreId, userId or   *)
(* completed fails in every reachable state, the seed state included; it   *)
(* never answers such a payload with success.                              *)
(***************************************************************************)
C10_UpdateMissingKeyFaults ==
    /\ Served("update_weekly_chore")
    /\ ~({"choreId", "userId", "completed"} \subseteq DOMAIN resp.payload)
    => resp.status = "fault"
(***************************************************************************)
(* C8: last write wins.  The text a write_data leaves in db.json is the    *)
(* writer's mutation of the document the writer read, whatever other       *)
(* requests wrote meanwhile, so a change persisted between the writer's    *)
(* read and its write is lost without any fault; a request that overlaps   *)
(* no other one read the document that was persisted when it arrived, so   *)
(* its write loses nothing.                                                *)
(***************************************************************************)
C8_LastWriteWins ==
    lastw.op # "nowrite" /\ db.content = "json" =>
        /\ db.doc = Apply(lastw.op, lastw.payload, lastw.snap).data
        /\ lastw.alone =>
               /\ lastw.prev.content \in {"none", "json"}
               /\ lastw.snap = DocOf(lastw.prev)
               /\ ~lastw.stale

\* Two requests, both answered 200, all threads back idle: the second writer
\* read before the first wrote, and a log entry that the first writer had
\* persisted (it is in the file the second writer truncated, not in the
\* document the second writer read) is no longer in db.json.
C8_Witness ==
    /\ n = 2 /\ faults = 0
    /\ \A t \in Threads : pc[t] = "idle"
    /\ lastw.op \notin {"nowrite", "delete_chore", "reset_week"}
    /\ lastw.stale /\ lastw.over.content = "json"
    /\ db.content = "json"
    /\ resp.status = "ok"
    /\ LET lost == lastw.over.doc.currentWeek.completedLog
           read == lastw.snap.currentWeek.completedLog
           kept == db.doc.currentWeek.completedLog
       IN  \E i \in 1..Len(lost) :
              /\ \A j \in 1..Len(read) : read[j] # lost[i]
              /\ \A j \in 1..Len(kept) : kept[j] # lost[i]

(***************************************************************************)
(* C11: GET /api/state answers 200 with the persisted document and leaves  *)
(* db.json as it was whenever db.json exists, so a GET that repeats a GET  *)
(* returns the same document and changes nothing; when db.json does not    *)
(* exist, the GET saves the seed document (two users, two repeatable       *)
(* master chores, no assigned chores, an empty log) and returns it.        *)
(***************************************************************************)
C11_GetStateReadOnly ==
    Served("get_state") =>
        /\ resp.status = "ok"
        /\ db.content = "json"
        /\ resp.body = db.doc
        /\ pre.content = "json" => db = pre
        /\ pre.content = "none" =>
               /\ db.doc = default_data
               /\ Len(db.doc.users) = 2
               /\ Len(db.doc.masterChores) = 2
               /\ \A i \in 1..2 : db.doc.masterChores[i].type = "repeatable"
               /\ db.doc.currentWeek.assignedChores = << >>
               /\ db.doc.currentWeek.completedLog = << >>
        /\ repeat => db = pre /\ resp.body = pre.doc

\* The first GET found no db.json and saved the seed; the GET that follows
\* it returns that seed.
C11_Witness ==
    /\ Served("get_state") /\ repeat /\ n = 2
    /\ pre = write_data(default_data)
    /\ resp.body = default_data

MasterCount(doc, c) ==
    Cardinality({i \in 1..Len(doc.masterChores) : doc.masterChores[i].id = c})

\* The number of assignedChores rows of the pair (c, u).
RowCount(doc, c, u) ==
    LET rows == doc.currentWeek.assignedChores
    IN  Cardinality({i \in 1..Len(rows) : rows[i].choreId = c /\ rows[i].userId = u})

(***************************************************************************)
(* C13: add_chore does not keep the (choreId, userId) pair of an           *)
(* AssignedChore unique: an add_chore that repeats an add_chore with type  *)
(* "weekly" and an assignedUserId appends one more masterChores entry with *)
(* the id and one more row with the pair, so that at least two of each are *)
(* persisted.                                                              *)
(***************************************************************************)
C13_AddChoreDuplicates ==
    /\ Served("add_chore") /\ repeat /\ resp.status = "ok"
    /\ resp.payload.type = "weekly" /\ Has(resp.payload, "assignedUserId")
    => LET c == resp.payload.id
           u == resp.payload.assignedUserId
       IN  /\ MasterCount(Before, c) >= 1
           /\ RowCount(Before, c, u) >= 1
           /\ MasterCount(After, c) = MasterCount(Before, c) + 1
           /\ RowCount(After, c, u) = RowCount(Before, c, u) + 1
           /\ db.content = "json"

\* add_chore with id 3, weekly, for user 1, twice on the seed: two master
\* chores with id 3 and two rows of the pair (3, 1).
C13_Witness ==
    /\ Served("add_chore") /\ repeat /\ n = 2 /\ resp.status = "ok"
    /\ resp.payload.id = 3 /\ resp.payload.type = "weekly"
    /\ Has(resp.payload, "assignedUserId") /\ resp.payload.assignedUserId = 1
    /\ MasterCount(db.doc, 3) = 2
    /\ RowCount(db.doc, 3, 1) = 2

\* Every completedLog entry of the document carries choreId and userId.
LogWellFormed(doc) ==
    \A i \in 1..Len(doc.currentWeek.completedLog) :
        {"choreId", "userId"} \subseteq DOMAIN doc.currentWeek.completedLog[i]

\* The latest request was an update_weekly_chore with all three payload
\* keys whose pair is the pair of no assignedChores row.
UpdateOfNoRow ==
    /\ Served("update_weekly_chore")
    /\ {"choreId", "userId", "completed"} \subseteq DOMAIN resp.payload
    /\ RowCount(Before, resp.payload.choreId, resp.payload.userId) = 0

(***************************************************************************)
(* C14: update_weekly_chore for a pair that no assignedChores row has      *)
(* answers 200 and leaves assignedChores as it was, and its log step still *)
(* runs: with completed = true the persisted completedLog then holds an    *)
(* entry of the pair, although no row has the pair.                        *)
(***************************************************************************)
C14_UpdateOfNoRow ==
    UpdateOfNoRow =>
        /\ resp.status = "ok"
        /\ After.currentWeek.assignedChores = Before.currentWeek.assignedChores
        /\ After.masterChores = Before.masterChores
        /\ resp.payload.completed =>
               PairCount(After.currentWeek.completedLog,
                         resp.payload.choreId, resp.payload.userId) >= 1

\* Row i is the first row of its (choreId, userId) pair.
FirstOfPair(rows, i) ==
    \A j \in 1..(i - 1) :
        rows[j].choreId # rows[i].choreId \/ rows[j].userId # rows[i].userId

(***************************************************************************)
(* C15: update_weekly_chore changes at most one assignedChores row, and    *)
(* the row it changes is the first one in list order whose pair is the     *)
(* payload's; every row behind the first one of its pair keeps its         *)
(* completed value.  So in every reachable state a row that is not the     *)
(* first of its pair has completed = false.                                *)
(***************************************************************************)
C15_FirstMatchOnly ==
    LET rows0 == Before.currentWeek.assignedChores
        rows1 == After.currentWeek.assignedChores
    IN  /\ Served("update_weekly_chore") =>
               /\ Len(rows1) = Len(rows0)
               /\ FlagsChanged(rows0, rows1) <= 1
               /\ \A i \in 1..Len(rows0) :
                      rows1[i] # rows0[i] =>
                          /\ rows1[i] = [rows0[i] EXCEPT !.completed = resp.payload.completed]
                          /\ rows0[i].choreId = resp.payload.choreId
                          /\ rows0[i].userId = resp.payload.userId
                          /\ FirstOfPair(rows0, i)
        /\ \A i \in 1..Len(rows1) : ~FirstOfPair(rows1, i) => ~rows1[i].completed

\* Two rows of the pair (3, 1), and update_weekly_chore with completed = true
\* for that pair: the first row is completed, the second is not.
C15_Witness ==
    /\ Served("update_weekly_chore") /\ resp.status = "ok"
    /\ Has(resp.payload, "completed") /\ resp.payload.completed
    /\ LET rows0 == Before.currentWeek.assignedChores
           rows1 == After.currentWeek.assignedChores
       IN  /\ Len(rows1) = 2
           /\ RowPairs(rows1) = << <<3, 1>>, <<3, 1>> >>
           /\ ~rows0[1].completed
           /\ rows1[1].completed /\ ~rows1[2].completed

(***************************************************************************)
(* C16: whatever requests were served, one after the other or overlapping, *)
(* every assignedChores row of a persisted document has the id of some     *)
(* masterChores entry as its choreId.                                      *)
(***************************************************************************)
C16_AssignedRefersToMaster ==
    db.content = "json" =>
        LET rows == db.doc.currentWeek.assignedChores
        IN  \A i \in 1..Len(rows) : MasterCount(db.doc, rows[i].choreId) >= 1

\* Two requests that overlapped: db.json holds the text of a write_data
\* whose document was read before the other request wrote, and it holds a
\* row of chore 3.
C16_Witness ==
    /\ db.content = "json" /\ lastw.op # "nowrite" /\ lastw.stale
    /\ n = 2 /\ \A t \in Threads : pc[t] = "idle"
    /\ Len(db.doc.currentWeek.assignedChores) >= 1
    /\ MasterCount(db.doc, 3) >= 1

(***************************************************************************)
(* C17: whatever requests were served, one after the other or overlapping, *)
(* every assignedChores row of a persisted document that has completed =   *)
(* true has a completedLog entry with its choreId and userId.              *)
(***************************************************************************)
C17_CompletedHasLogEntry ==
    db.content = "json" =>
        LET rows == db.doc.currentWeek.assignedChores
        IN  \A i \in 1..Len(rows) :
               rows[i].completed =>
                   PairCount(db.doc.currentWeek.completedLog,
                             rows[i].choreId, rows[i].userId) >= 1

\* update_weekly_chore with completed = true overlapped another request and
\* wrote last: the row of (3, 1) is completed and the log holds the pair.
C17_Witness ==
    /\ db.content = "json" /\ lastw.stale
    /\ lastw.op = "update_weekly_chore" /\ lastw.payload.completed
    /\ lastw.prev = write_data(Assigned3)
    /\ \A t \in Threads : pc[t] = "idle"
    /\ db.doc.currentWeek.assignedChores[1].completed
    /\ PairCount(db.doc.currentWeek.completedLog, 3, 1) >= 1

(***************************************************************************)
(* C20: as long as log_chore was never called, completedLog of a persisted *)
(* document holds at most one entry per (choreId, userId), whatever        *)
(* update_weekly_chore, add_chore, delete_chore and reset_week requests    *)
(* were served, one after the other or overlapping, and also when          *)
(* assignedChores holds several rows of the pair.                          *)
(***************************************************************************)
C20_OneLogEntryPerPair ==
    ~hist.logged /\ db.content = "json" =>
        \A c \in ChoreIds, u \in UserIds :
            PairCount(db.doc.currentWeek.completedLog, c, u) <= 1

\* log_chore never called, two overlapping requests served: two rows of the
\* pair (3, 1), one log entry of it.
C20_Witness ==
    /\ ~hist.logged /\ db.content = "json" /\ lastw.stale
    /\ \A t \in Threads : pc[t] = "idle"
    /\ RowCount(db.doc, 3, 1) >= 2
    /\ PairCount(db.doc.currentWeek.completedLog, 3, 1) = 1

(***************************************************************************)
(* C18: delete_chore with a payload that has choreId, and                  *)
(* update_weekly_chore with a payload that has choreId, userId and         *)
(* completed, answer 200 in every state, whatever objects log_chore stored *)
(* before.                                                                 *)
(***************************************************************************)
C18_LoggedObjectsHarmless ==
    /\ Served("delete_chore") /\ Has(resp.payload, "choreId") => resp.status = "ok"
    /\ Served("update_weekly_chore")
          /\ {"choreId", "userId", "completed"} \subseteq DOMAIN resp.payload
          => resp.status = "ok"

\* The latest request went to a mutating endpoint with a payload that lacks a
\* key the handler reads, and ended in a fault.
FaultOfMissingKey ==
    /\ n > 0 /\ resp.status = "fault"
    /\ \/ resp.op = "update_weekly_chore"
             /\ ~({"choreId", "userId", "completed"} \subseteq DOMAIN resp.payload)
       \/ resp.op = "add_chore"
             /\ ~({"id", "name", "points", "type"} \subseteq DOMAIN resp.payload)
       \/ resp.op = "delete_chore" /\ ~Has(resp.payload, "choreId")
       \/ resp.op = "reset_week" /\ ~Has(resp.payload, "prize")

(***************************************************************************)
(* C19, as stated: a mutating request that ends in a fault because of a    *)
(* missing payload key did not execute write_data, so db.json is after the *)
(* request what it was before it.                                          *)
(***************************************************************************)
C19_FaultLeavesStoreUntouched ==
    FaultOfMissingKey => db = pre

(***************************************************************************)
(* C19, amended: a mutating request that ends in a fault because of a      *)
(* missing payload key persists no mutation.  An existing db.json is after *)
(* the request exactly what it was before it.  When there is no db.json,   *)
(* delete_chore and reset_week leave it absent, and update_weekly_chore    *)
(* and add_chore create it with the seed document, because read_data calls *)
(* write_data(default_data) before the handler reads the key.              *)
(***************************************************************************)
C19_FaultPersistsNoMutation ==
    FaultOfMissingKey =>
        /\ pre.content = "json" => db = pre
        /\ pre.content = "none" =>
               IF resp.op \in {"delete_chore", "reset_week"}
               THEN db = pre
               ELSE db = write_data(default_data)

\* add_chore without a name on a db.json that holds a log entry and a row:
\* answered with a fault, db.json as before.
C19_Witness ==
    /\ FaultOfMissingKey /\ resp.op = "add_chore" /\ ~Has(resp.payload, "name")
    /\ pre.content = "json" /\ db = pre
    /\ Len(db.doc.currentWeek.completedLog) >= 1
    /\ Len(db.doc.currentWeek.assignedChores) >= 1
====
